---- MODULE Spec2Model ----
(***************************************************************************)
(* Federated Capability Kernel (FederatedCapabilityKernel.ts).             *)
(*                                                                         *)
(* One kernel instance for one agent, its storage adapter, and the async   *)
(* entrypoints boot, governedFederationCall, requestAssistance and         *)
(* applyUpdatePackage.  Every action is the synchronous code segment that  *)
(* runs between two awaits of an entrypoint: it starts with the answer of  *)
(* the collaborator that was awaited and ends where the next collaborator  *)
(* call is issued, or where the entrypoint returns or throws.              *)
(***************************************************************************)
EXTENDS Integers, Sequences, FiniteSets, TLC

(* ---------------------------- bounds ----------------------------------- *)

\* isoNowUTC() yields 0..MaxClock
MaxClock == 1

\* boots are offered while the stored monotonic_counter is below MaxCounter
MaxCounter == 2

(* ---------------------------- JS values -------------------------------- *)

\* the JS value undefined, where a string is expected
UNDEFINED == "<undefined>"

\* storage.get of a key that was never set
NULL == [null |-> TRUE]

\* this.state before the first assignment of boot (declared with `state!`)
NoState == [unassigned |-> TRUE]

\* a local that has not been assigned yet
Nil == [nil |-> TRUE]

\* `${x}` in a template literal
Str(x) == IF x = UNDEFINED THEN "undefined" ELSE x

\* x ?? d
Coalesce(x, d) == IF x = UNDEFINED THEN d ELSE x

\* Boolean(args.human_confirmation); the optional argument is {} when omitted
BooleanOf(opt) == TRUE \in opt

(* ---------------------------- types ------------------------------------ *)

RiskTier == {"T0_LOW", "T1_STANDARD", "T2_HIGH_STAKES", "T3_REGULATED"}

Verdict == {"ALLOW", "DENY"}

DVAPVerdict == {"ATTESTED", "REFUSED"}

Channel == {"SKILL_CAPSULE", "CONFIG_BUNDLE"}

\* the agent id the kernel was constructed with
AgentId == "agent-A"

Operations == {"ASK_FEDERATION", "RUN_REMOTE_TOOL"}

\* the risk tiers the callers of the model pass: one below and one among the
\* tiers manifests name
CallerTiers == {"T1_STANDARD", "T3_REGULATED"}

HighTiers == {"T2_HIGH_STAKES", "T3_REGULATED"}

TierSets == {{}, HighTiers}

FederationCfgs ==
  {[enabled |-> e, allowed_operations |-> {"ASK_FEDERATION"}] : e \in BOOLEAN}

AssistanceCfgs == {[enabled |-> e, max_attempts |-> 3] : e \in BOOLEAN}

UpdatesOff ==
  [enabled |-> FALSE, allowed_channels |-> {"SKILL_CAPSULE"},
   require_signature |-> TRUE, require_dvap_for_risk_tiers |-> HighTiers,
   trusted_signers |-> {"signer-1"}]

UpdatesCfgs ==
  {UpdatesOff}
  \cup
  {[enabled |-> TRUE, allowed_channels |-> {"SKILL_CAPSULE"},
    require_signature |-> s, require_dvap_for_risk_tiers |-> t,
    trusted_signers |-> {"signer-1"}] :
      s \in BOOLEAN, t \in TierSets}

GovernanceCfgs ==
  {[sdc_version |-> "sdc-1", dvap_required_for_risk_tiers |-> t] : t \in TierSets}

\* the default manifests a caller hands to boot: every federation, assistance
\* and governance section with updates off, and every updates and governance
\* section with federation and assistance on
CapabilityManifest ==
  {[agent_id |-> AgentId, federation |-> f, assistance |-> a,
    updates |-> UpdatesOff, governance |-> g] :
      f \in FederationCfgs, a \in AssistanceCfgs, g \in GovernanceCfgs}
  \cup
  {[agent_id |-> AgentId,
    federation |-> [enabled |-> TRUE, allowed_operations |-> {"ASK_FEDERATION"}],
    assistance |-> [enabled |-> TRUE, max_attempts |-> 3],
    updates |-> u, governance |-> g] :
      u \in UpdatesCfgs, g \in GovernanceCfgs}

(* ---------------------------- utilities -------------------------------- *)

\* SHA-256 as a collision-free digest: equal digests iff equal inputs
sha256Hex(input) == [sha256 |-> input]

\* the sorted-key serialization of a value; a record carries no insertion
\* order, so the text is determined by the keys and their values
canonicalStringify(obj) == [canonical |-> obj]

computeInputFrameHash(frame) == sha256Hex(canonicalStringify(frame))

ManifestHash(manifest) == sha256Hex(canonicalStringify(manifest))

\* JSON.stringify(this.state) and JSON.parse(raw) of a stored text
JSONStringify(st) == [json |-> st]

JSONParse(raw) == raw.json

\* JSON.parse(raw) returns: the text is JSON (otherwise it throws SyntaxError)
Parsable(raw) == "json" \in DOMAIN raw

\* a stored text of length zero
EmptyText == [text |-> ""]

\* a stored text that is not JSON
GarbageText == [text |-> "{\"manifest\":"]

\* the agent id of another kernel
OtherAgentId == "agent-B"

\* the manifest of the stored states that exist before the kernel runs
StoredManifest ==
  [agent_id |-> AgentId,
   federation |-> [enabled |-> TRUE, allowed_operations |-> {"ASK_FEDERATION"}],
   assistance |-> [enabled |-> TRUE, max_attempts |-> 3],
   updates |-> [enabled |-> TRUE, allowed_channels |-> {"SKILL_CAPSULE"},
                require_signature |-> FALSE, require_dvap_for_risk_tiers |-> {},
                trusted_signers |-> {"signer-1"}],
   governance |-> [sdc_version |-> "sdc-1", dvap_required_for_risk_tiers |-> HighTiers]]

\* a manifest written for another agent
ForeignManifest == [StoredManifest EXCEPT !.agent_id = OtherAgentId]

\* the default manifests a caller may hand to boot
DefaultManifests == CapabilityManifest \cup {ForeignManifest}

\* a stored state whose monotonic_counter was lost
CounterlessText ==
  JSONStringify([manifest |-> StoredManifest, last_boot_utc |-> 0,
                 last_manifest_hash |-> ManifestHash(StoredManifest)])

\* a stored state written for another agent
ForeignText ==
  JSONStringify([manifest |-> ForeignManifest,
                 last_boot_utc |-> 0,
                 last_manifest_hash |-> ManifestHash(ForeignManifest),
                 monotonic_counter |-> 1])

\* what the storage may hold under the kernel's key before the kernel runs
InitialStorage == {NULL, EmptyText, GarbageText, CounterlessText, ForeignText}

(* ---------------------------- state ------------------------------------ *)

VARIABLES
  state,    \* this.state of the kernel
  storage,  \* the value stored under acip.kernel.state.<agentId>, or NULL
  clock,    \* what isoNowUTC() returns
  pc,       \* per invocation slot: where the async function is suspended
  inv,      \* per invocation slot: the entrypoint, its arguments and locals
  calls,    \* per invocation slot: the collaborator calls issued so far
  result    \* per invocation slot: what the entrypoint returned or threw

vars == <<state, storage, clock, pc, inv, calls, result>>

\* invocation slots: an invocation occupies a slot from its call until its
\* result has been taken
Procs == {"p1", "p2"}

\* the slot of the callers that await each invocation before the next one
Serial == {"p1"}

NoLocals ==
  [ent |-> "none", args |-> Nil, m |-> Nil, frame |-> Nil,
   input_frame_hash |-> UNDEFINED, uva_hash |-> UNDEFINED,
   gov |-> Nil, dv |-> Nil, res |-> Nil, pending |-> Nil,
   assist |-> Nil, broker |-> Nil, raw |-> Nil, pre |-> Nil]

Init ==
  /\ state = NoState
  /\ storage \in InitialStorage
  /\ clock = 0
  /\ pc = [p \in Procs |-> "idle"]
  /\ inv = [p \in Procs |-> NoLocals]
  /\ calls = [p \in Procs |-> <<>>]
  /\ result = [p \in Procs |-> Nil]

\* every other invocation has returned: the caller awaits each entrypoint
Exclusive(p) == \A q \in Procs \ {p} : pc[q] = "idle"

\* the locals of a fresh invocation of entrypoint ent
Enter(ent, args) ==
  [NoLocals EXCEPT !.ent = ent, !.args = args,
                   !.pre = [state |-> state, storage |-> storage]]

\* this.storageKey
storageKey == <<"acip.kernel.state.", AgentId>>

\* one collaborator call: the function called and the argument it was given
Call(fn, arg) == [fn |-> fn, arg |-> arg]

\* the functions invocation slot p has called so far, in order
Called(p) == [i \in 1..Len(calls[p]) |-> calls[p][i].fn]

\* the number of calls of fn that slot p has issued
Count(p, fn) == Cardinality({i \in 1..Len(calls[p]) : calls[p][i].fn = fn})

\* r.f of a JS object: undefined when the property is absent
Field(r, f) == IF f \in DOMAIN r THEN r[f] ELSE UNDEFINED

(* ----------------- how a code segment ends ----------------------------- *)

\* a segment that issues its call a second time
Awaits_Retried(p, label, l, call) ==
  /\ pc' = [pc EXCEPT ![p] = label]
  /\ inv' = [inv EXCEPT ![p] = l]
  /\ calls' = [calls EXCEPT ![p] = Append(Append(@, call), call)]
  /\ result' = result

\* the segment ends at `await <call>`
Awaits(p, label, l, call) ==
  /\ pc' = [pc EXCEPT ![p] = label]
  /\ inv' = [inv EXCEPT ![p] = l]
  /\ calls' = [calls EXCEPT ![p] = Append(@, call)]
  /\ result' = result

\* the segment ends at `return r`
Returns(p, l, r) ==
  /\ pc' = [pc EXCEPT ![p] = "done"]
  /\ inv' = [inv EXCEPT ![p] = l]
  /\ calls' = calls
  /\ result' = [result EXCEPT ![p] = r]

\* the segment ends with an exception leaving the entrypoint
Throws(p, l, e) ==
  /\ pc' = [pc EXCEPT ![p] = "threw"]
  /\ inv' = [inv EXCEPT ![p] = l]
  /\ calls' = calls
  /\ result' = [result EXCEPT ![p] = [threw |-> e]]

\* the clock advances
Tick ==
  /\ clock < MaxClock
  /\ clock' = clock + 1
  /\ UNCHANGED <<state, storage, pc, inv, calls, result>>

\* the caller takes the outcome; the slot is free for the next invocation
Return(p) ==
  /\ pc[p] \in {"done", "threw"}
  /\ pc' = [pc EXCEPT ![p] = "idle"]
  /\ inv' = [inv EXCEPT ![p] = NoLocals]
  /\ calls' = [calls EXCEPT ![p] = <<>>]
  /\ result' = [result EXCEPT ![p] = Nil]
  /\ UNCHANGED <<state, storage, clock>>

(* ---------------------------- boot ------------------------------------- *)

\* the state boot builds when storage holds nothing
FirstBootState(defaultManifest, now) ==
  [manifest |-> defaultManifest,
   last_boot_utc |-> now,
   last_manifest_hash |-> ManifestHash(defaultManifest),
   monotonic_counter |-> 1]

\* parsed.monotonic_counter ?? 0
PriorCounter(parsed) ==
  IF "monotonic_counter" \in DOMAIN parsed THEN parsed.monotonic_counter ELSE 0

\* a reboot that writes the counter back as it read it
RebootState_SameCounter(parsed, now) ==
  [last_boot_utc |-> now,
   monotonic_counter |-> PriorCounter(parsed),
   last_manifest_hash |-> ManifestHash(parsed.manifest)] @@ parsed

\* a reboot that installs the default manifest it was handed
RebootInput_DefaultManifest(parsed, defaultManifest) ==
  [parsed EXCEPT !.manifest = defaultManifest]

\* the object the reboot path updates: parsed; defaultManifest is not read
RebootInput(parsed, defaultManifest) == parsed

\* the state boot builds from the parsed stored state
\* (an assignment creates the property when parsed lacks it)
RebootState(parsed, now) ==
  [last_boot_utc |-> now,
   monotonic_counter |-> PriorCounter(parsed) + 1,
   last_manifest_hash |-> ManifestHash(parsed.manifest)] @@ parsed

\* the Error boot throws on a stored state of another agent
AgentIdMismatchError(found) ==
  <<"Kernel state agent_id mismatch. Expected=", AgentId, ", Found=", found>>

\* a boot that assigns this.state before it compares the agent ids
StateOnMismatch_Assigned(st, parsed) == parsed

\* this.state when boot throws the mismatch: the throw precedes the assignment
StateOnMismatch(st, parsed) == st

\* !raw
Falsy(raw) == raw = NULL \/ raw = EmptyText

\* the counter a stored text carries; 0 when it carries none
StoredCounter ==
  IF Parsable(storage) THEN PriorCounter(JSONParse(storage)) ELSE 0

\* boot(defaultManifest) up to `await storage.get`, for a default manifest
\* among dms
BootBegin(p, dms) ==
  /\ pc[p] = "idle"
  /\ StoredCounter < MaxCounter
  /\ \E dm \in dms :
       Awaits(p, "boot_get", Enter("boot", [defaultManifest |-> dm]),
              Call("storage.get", storageKey))
  /\ UNCHANGED <<state, storage, clock>>

\* boot called while no other invocation is in flight
BootStart(p) == Exclusive(p) /\ BootBegin(p, DefaultManifests)

\* storage.get answered: build this.state, up to `await storage.set` of persist
BootGet(p) ==
  /\ pc[p] = "boot_get"
  /\ LET raw == storage
         dm  == inv[p].args.defaultManifest
         l   == [inv[p] EXCEPT !.raw = raw]
     IN IF Falsy(raw)
        THEN LET st == FirstBootState(dm, clock)
             IN /\ state' = st
                /\ Awaits(p, "boot_set",
                          [l EXCEPT !.pending = JSONStringify(st)],
                          Call("storage.set", JSONStringify(st)))
        ELSE IF ~Parsable(raw)
        THEN /\ state' = state
             /\ Throws(p, l, "SyntaxError")
        ELSE LET parsed == JSONParse(raw)
             IN IF parsed.manifest.agent_id # AgentId
                THEN /\ state' = StateOnMismatch(state, parsed)
                     /\ Throws(p, l, AgentIdMismatchError(parsed.manifest.agent_id))
                ELSE LET st == RebootState(RebootInput(parsed, dm), clock)
                     IN /\ state' = st
                        /\ Awaits(p, "boot_set",
                                  [l EXCEPT !.pending = JSONStringify(st)],
                                  Call("storage.set", JSONStringify(st)))
  /\ UNCHANGED <<storage, clock>>

\* storage.get rejected
BootGetThrows(p) ==
  /\ pc[p] = "boot_get"
  /\ Throws(p, inv[p], "STORAGE_GET_FAILED")
  /\ UNCHANGED <<state, storage, clock>>

\* storage.set of persist resolved: boot returns this.state
BootSet(p) ==
  /\ pc[p] = "boot_set"
  /\ storage' = inv[p].pending
  /\ Returns(p, inv[p], state)
  /\ UNCHANGED <<state, clock>>

\* storage.set of persist rejected: nothing was written
BootSetThrows(p) ==
  /\ pc[p] = "boot_set"
  /\ Throws(p, inv[p], "STORAGE_SET_FAILED")
  /\ UNCHANGED <<state, storage, clock>>

Boot(p) ==
  \/ BootStart(p)
  \/ BootGet(p)
  \/ BootGetThrows(p)
  \/ BootSet(p)
  \/ BootSetThrows(p)

(* ------------------- collaborator answers ------------------------------ *)

\* what governance.evaluate may resolve to; the declared type is Verdict, the
\* value is whatever the injected gate delivers at run time
GovResponses ==
  {[verdict |-> "ALLOW", reason |-> "OK"],
   [verdict |-> "DENY", reason |-> "INVARIANT_KEY_MISSING"],
   [verdict |-> "DENY", reason |-> "POLICY_VIOLATION"],
   [verdict |-> UNDEFINED, reason |-> "GATE_UNAVAILABLE"]}

\* what dvap.attest may resolve to
DvapResponses ==
  {[verdict |-> "ATTESTED", uva_hash |-> "u1", reason |-> UNDEFINED],
   [verdict |-> "REFUSED", uva_hash |-> UNDEFINED, reason |-> "NO_QUORUM"],
   [verdict |-> "REFUSED", uva_hash |-> UNDEFINED, reason |-> UNDEFINED],
   [verdict |-> UNDEFINED, uva_hash |-> "u2", reason |-> UNDEFINED]}

\* what federation.request may resolve to
FederationResponses ==
  {[ok |-> TRUE, result |-> "42", error |-> UNDEFINED, source |-> "MAS_CORE"],
   [ok |-> FALSE, result |-> UNDEFINED, error |-> "TIMEOUT", source |-> "MAS_CORE"],
   [ok |-> FALSE, result |-> UNDEFINED, error |-> UNDEFINED, source |-> UNDEFINED]}

\* what assistance.requestAssistance may resolve to
AssistanceResponses ==
  {[ok |-> TRUE, response |-> "help", route_used |-> "HUMAN_ESCALATION",
    error |-> UNDEFINED],
   [ok |-> FALSE, response |-> UNDEFINED, route_used |-> UNDEFINED,
    error |-> "NO_ROUTE"]}

(* ------------------- the shared pipeline pieces ------------------------ *)

\* the CanonicalActionFrame literal of the three governed entrypoints
ActionFrame(action_id, risk_tier, m, human_confirmation, now) ==
  [action_id |-> action_id,
   agent_id |-> AgentId,
   risk_tier |-> risk_tier,
   sdc_version |-> m.governance.sdc_version,
   policy_verdict |-> TRUE,
   constraints_satisfied |-> TRUE,
   human_confirmation |-> BooleanOf(human_confirmation),
   timestamp_utc |-> now,
   hash_algorithm |-> "SHA-256"]

\* GovDenied with the literal misspelt: the branch is never taken
GovDenied_WrongLiteral(gov) == gov.verdict = "DENIED"

\* if (gov.verdict === "DENY")
GovDenied(gov) == gov.verdict = "DENY"

\* { ok: false, error: `GOV_DENY:${gov.reason}` }
GovDenyResult(gov) == [ok |-> FALSE, error |-> <<"GOV_DENY:", Str(gov.reason)>>]

\* m.governance.dvap_required_for_risk_tiers.includes(args.risk_tier)
DvapRequired(m, risk_tier) == risk_tier \in m.governance.dvap_required_for_risk_tiers

\* DvapAttested testing for the refusal instead: any other verdict passes
DvapAttested_NotRefused(dv) == dv.verdict # "REFUSED"

\* the negation of (dv.verdict !== "ATTESTED")
DvapAttested(dv) == dv.verdict = "ATTESTED"

\* `DVAP_REFUSED:${dv.reason ?? "UNKNOWN"}`
DvapRefusedError(dv) == <<"DVAP_REFUSED:", Str(Coalesce(dv.reason, "UNKNOWN"))>>

\* a bare { ok: false, error: tag }
Refusal(tag) == [ok |-> FALSE, error |-> <<tag>>]

(* ------------------- governedFederationCall ---------------------------- *)

GfcArgs ==
  [trace_id : {"t1"}, action_id : {"a1"}, operation : Operations,
   payload : {"payload"}, risk_tier : CallerTiers, human_confirmation : {{}, {TRUE}}]

\* GfcPrecheck without the federation.enabled gate
GfcPrecheck_NoEnabledGate(m, operation) ==
  IF operation \notin m.federation.allowed_operations THEN "OP_NOT_ALLOWED"
  ELSE "PASS"

\* GfcPrecheck with the two gates in the other order
GfcPrecheck_OperationFirst(m, operation) ==
  IF operation \notin m.federation.allowed_operations THEN "OP_NOT_ALLOWED"
  ELSE IF ~m.federation.enabled THEN "FEDERATION_DISABLED"
  ELSE "PASS"

\* the two manifest gates, in the order the code tests them
GfcPrecheck(m, operation) ==
  IF ~m.federation.enabled THEN "FEDERATION_DISABLED"
  ELSE IF operation \notin m.federation.allowed_operations THEN "OP_NOT_ALLOWED"
  ELSE "PASS"

\* the request object handed to federation.request
FederationRequest(args) ==
  [trace_id |-> args.trace_id, agent_id |-> AgentId, operation |-> args.operation,
   payload |-> args.payload, risk_tier |-> args.risk_tier]

\* the request object tryAssistance hands to the broker
TryAssistanceRequest(args, res) ==
  [trace_id |-> args.trace_id, agent_id |-> AgentId,
   query |-> <<"Federation operation failed: ", args.operation>>,
   context |-> [error |-> res.error, operation |-> args.operation],
   risk_tier |-> args.risk_tier]

\* a tryAssistance that asks the broker whatever the manifest says
TryAssistanceSkips_Never(m) == FALSE

\* tryAssistance returns { ok: false } without asking the broker
TryAssistanceSkips(m) == ~m.assistance.enabled

\* what tryAssistance returns when the broker answered a
TryAssistanceResult(a) == [ok |-> a.ok, route_used |-> a.route_used]

\* the broker rejected instead of answering
Rejected == [rejected |-> TRUE]

\* GfcDvapRefusedResult without the hash, as the other entrypoints return it
GfcDvapRefusedResult_NoHash(input_frame_hash, dv) ==
  [ok |-> FALSE, error |-> <<"DVAP_REFUSED:", Str(Coalesce(dv.reason, "UNKNOWN"))>>]

\* the refusal returned when attestation did not attest
GfcDvapRefusedResult(input_frame_hash, dv) ==
  [ok |-> FALSE, input_frame_hash |-> input_frame_hash, error |-> DvapRefusedError(dv)]

\* the object returned when the federation answered ok = false: the spread of
\* the assistance branch overwrites error
GfcFailureResult(l, res, assist) ==
  [ok |-> FALSE, uva_hash |-> l.uva_hash, input_frame_hash |-> l.input_frame_hash,
   error |-> IF assist.ok
             THEN <<Str(res.error), " | assist:", Str(assist.route_used)>>
             ELSE <<Coalesce(res.error, "FEDERATION_ERROR")>>,
   source |-> res.source]

\* the object returned when the federation answered ok = true
GfcSuccessResult(l, res) ==
  [ok |-> TRUE, result |-> res.result, uva_hash |-> l.uva_hash,
   input_frame_hash |-> l.input_frame_hash, source |-> res.source]

\* governedFederationCall(args) up to `await governance.evaluate`
GfcBegin(p) ==
  /\ pc[p] = "idle"
  /\ \E args \in GfcArgs :
       LET l0 == Enter("gfc", args)
       IN IF state = NoState
          THEN Throws(p, l0, "TypeError")
          ELSE LET m     == state.manifest
                   gate  == GfcPrecheck(m, args.operation)
                   frame == ActionFrame(args.action_id, args.risk_tier, m,
                                        args.human_confirmation, clock)
                   l     == [l0 EXCEPT !.m = m, !.frame = frame]
               IN IF gate # "PASS"
                  THEN Returns(p, [l0 EXCEPT !.m = m], Refusal(gate))
                  ELSE Awaits(p, "gfc_gov", l, Call("governance.evaluate", frame))
  /\ UNCHANGED <<state, storage, clock>>

\* governedFederationCall called while no other invocation is in flight
GfcStart(p) == Exclusive(p) /\ GfcBegin(p)

\* governance answered, up to `await dvap.attest` or `await federation.request`
GfcGov(p) ==
  /\ pc[p] = "gfc_gov"
  /\ \E gov \in GovResponses :
       LET args == inv[p].args
           l    == [inv[p] EXCEPT !.gov = gov,
                                  !.input_frame_hash = computeInputFrameHash(inv[p].frame)]
       IN IF GovDenied(gov)
          THEN Returns(p, [inv[p] EXCEPT !.gov = gov], GovDenyResult(gov))
          ELSE IF DvapRequired(l.m, args.risk_tier)
               THEN Awaits(p, "gfc_dvap", l, Call("dvap.attest", l.frame))
               ELSE Awaits(p, "gfc_fed", l,
                           Call("federation.request", FederationRequest(args)))
  /\ UNCHANGED <<state, storage, clock>>

\* attestation answered, up to `await federation.request`
GfcDvap(p) ==
  /\ pc[p] = "gfc_dvap"
  /\ \E dv \in DvapResponses :
       LET l == [inv[p] EXCEPT !.dv = dv]
       IN IF ~DvapAttested(dv)
          THEN Returns(p, l, GfcDvapRefusedResult(l.input_frame_hash, dv))
          ELSE Awaits(p, "gfc_fed", [l EXCEPT !.uva_hash = dv.uva_hash],
                      Call("federation.request", FederationRequest(l.args)))
  /\ UNCHANGED <<state, storage, clock>>

\* the federation answered; on ok = false tryAssistance runs up to its await
GfcFed(p) ==
  /\ pc[p] = "gfc_fed"
  /\ \E res \in FederationResponses :
       LET l == [inv[p] EXCEPT !.res = res]
       IN IF res.ok
          THEN Returns(p, l, GfcSuccessResult(l, res))
          ELSE IF TryAssistanceSkips(state.manifest)
               THEN Returns(p, [l EXCEPT !.assist = [ok |-> FALSE]],
                            GfcFailureResult(l, res, [ok |-> FALSE]))
               ELSE Awaits(p, "gfc_assist", l,
                           Call("assistance.requestAssistance",
                                TryAssistanceRequest(l.args, res)))
  /\ UNCHANGED <<state, storage, clock>>

\* the broker answered tryAssistance
GfcAssist(p) ==
  /\ pc[p] = "gfc_assist"
  /\ \E a \in AssistanceResponses :
       Returns(p, [inv[p] EXCEPT !.broker = a, !.assist = TryAssistanceResult(a)],
               GfcFailureResult(inv[p], inv[p].res, TryAssistanceResult(a)))
  /\ UNCHANGED <<state, storage, clock>>

\* the broker rejected: the catch of tryAssistance yields { ok: false }
GfcAssistThrows(p) ==
  /\ pc[p] = "gfc_assist"
  /\ Returns(p, [inv[p] EXCEPT !.broker = Rejected, !.assist = [ok |-> FALSE]],
             GfcFailureResult(inv[p], inv[p].res, [ok |-> FALSE]))
  /\ UNCHANGED <<state, storage, clock>>

\* governance, attestation or the federation client rejected: nothing catches
GfcThrows(p) ==
  /\ pc[p] \in {"gfc_gov", "gfc_dvap", "gfc_fed"}
  /\ Throws(p, inv[p], "COLLABORATOR_REJECTED")
  /\ UNCHANGED <<state, storage, clock>>

GovernedFederationCall(p) ==
  \/ GfcStart(p)
  \/ GfcGov(p)
  \/ GfcDvap(p)
  \/ GfcFed(p)
  \/ GfcAssist(p)
  \/ GfcAssistThrows(p)
  \/ GfcThrows(p)

(* ------------------- requestAssistance --------------------------------- *)

RaArgs ==
  [trace_id : {"t1"}, risk_tier : CallerTiers, query : {"q1"},
   context : {UNDEFINED}, human_confirmation : {{}}]

\* `assist_${sha256Hex(args.trace_id + args.query).slice(0, 12)}`
AssistActionId(args) ==
  <<"assist_", [slice12 |-> sha256Hex(<<args.trace_id, args.query>>)]>>

\* the request object requestAssistance hands to the broker
AssistanceRequest(args) ==
  [trace_id |-> args.trace_id, agent_id |-> AgentId, query |-> args.query,
   context |-> args.context, risk_tier |-> args.risk_tier]

\* the refusal requestAssistance and applyUpdatePackage return when attestation
\* did not attest
DvapRefusedResult(dv) == [ok |-> FALSE, error |-> DvapRefusedError(dv)]

\* requestAssistance(args) up to `await governance.evaluate`
RaBegin(p) ==
  /\ pc[p] = "idle"
  /\ \E args \in RaArgs :
       LET l0 == Enter("ra", args)
       IN IF state = NoState
          THEN Throws(p, l0, "TypeError")
          ELSE LET m     == state.manifest
                   frame == ActionFrame(AssistActionId(args), args.risk_tier, m,
                                        args.human_confirmation, clock)
               IN IF ~m.assistance.enabled
                  THEN Returns(p, [l0 EXCEPT !.m = m], Refusal("ASSISTANCE_DISABLED"))
                  ELSE Awaits(p, "ra_gov", [l0 EXCEPT !.m = m, !.frame = frame],
                              Call("governance.evaluate", frame))
  /\ UNCHANGED <<state, storage, clock>>

\* requestAssistance called while no other invocation is in flight
RaStart(p) == Exclusive(p) /\ RaBegin(p)

\* governance answered, up to `await dvap.attest` or the broker call
RaGov(p) ==
  /\ pc[p] = "ra_gov"
  /\ \E gov \in GovResponses :
       LET l == [inv[p] EXCEPT !.gov = gov]
       IN IF GovDenied(gov)
          THEN Returns(p, l, GovDenyResult(gov))
          ELSE IF DvapRequired(l.m, l.args.risk_tier)
               THEN Awaits(p, "ra_dvap", l, Call("dvap.attest", l.frame))
               ELSE Awaits(p, "ra_assist", l,
                           Call("assistance.requestAssistance",
                                AssistanceRequest(l.args)))
  /\ UNCHANGED <<state, storage, clock>>

\* attestation answered, up to the broker call
RaDvap(p) ==
  /\ pc[p] = "ra_dvap"
  /\ \E dv \in DvapResponses :
       LET l == [inv[p] EXCEPT !.dv = dv]
       IN IF ~DvapAttested(dv)
          THEN Returns(p, l, DvapRefusedResult(dv))
          ELSE Awaits(p, "ra_assist", l,
                      Call("assistance.requestAssistance", AssistanceRequest(l.args)))
  /\ UNCHANGED <<state, storage, clock>>

\* the broker answered: its answer is the result
RaAssist(p) ==
  /\ pc[p] = "ra_assist"
  /\ \E a \in AssistanceResponses : Returns(p, [inv[p] EXCEPT !.res = a], a)
  /\ UNCHANGED <<state, storage, clock>>

\* governance, attestation or the broker rejected: nothing catches
RaThrows(p) ==
  /\ pc[p] \in {"ra_gov", "ra_dvap", "ra_assist"}
  /\ Throws(p, inv[p], "COLLABORATOR_REJECTED")
  /\ UNCHANGED <<state, storage, clock>>

RequestAssistance(p) ==
  \/ RaStart(p)
  \/ RaGov(p)
  \/ RaDvap(p)
  \/ RaAssist(p)
  \/ RaThrows(p)

(* ------------------- applyUpdatePackage -------------------------------- *)

UpdatePackage ==
  [package_id : {"pkg1"}, channel : Channel, version : {"1.0.1"},
   signer_id : {UNDEFINED, "signer-1"}]

AupArgs ==
  [trace_id : {"t1"}, risk_tier : CallerTiers, pkg : UpdatePackage,
   human_confirmation : {{}}]

\* AupPrecheck with the signature gate ahead of the channel gate
AupPrecheck_SignatureFirst(m, pkg) ==
  IF ~m.updates.enabled THEN "UPDATES_DISABLED"
  ELSE IF m.updates.require_signature THEN "VERIFY"
  ELSE IF pkg.channel \notin m.updates.allowed_channels
       THEN "UPDATE_CHANNEL_NOT_ALLOWED"
  ELSE "GOVERN"

\* the pre-phase up to the first await: the refusal tag, or "VERIFY" when
\* verifySignature is to be awaited, or "GOVERN" when the frame is built next
AupPrecheck(m, pkg) ==
  IF ~m.updates.enabled THEN "UPDATES_DISABLED"
  ELSE IF pkg.channel \notin m.updates.allowed_channels
       THEN "UPDATE_CHANNEL_NOT_ALLOWED"
  ELSE IF m.updates.require_signature THEN "VERIFY"
  ELSE "GOVERN"

\* the frame of an update, with its extensions
UpdateFrame(args, m, now) ==
  ActionFrame(<<"update_", args.pkg.package_id>>, args.risk_tier, m,
              args.human_confirmation, now)
  @@ [extensions |-> [channel |-> args.pkg.channel,
                      version |-> args.pkg.version,
                      signer  |-> Coalesce(args.pkg.signer_id, "unknown")]]

\* UpdateDvapRequired reading the governance tier set, as the other two
\* entrypoints do
UpdateDvapRequired_GovernanceTiers(m, risk_tier) ==
  risk_tier \in m.governance.dvap_required_for_risk_tiers

\* m.updates.require_dvap_for_risk_tiers.includes(args.risk_tier)
UpdateDvapRequired(m, risk_tier) == risk_tier \in m.updates.require_dvap_for_risk_tiers

\* what applyBundle may leave of the manifest it was asked to update: the
\* manifest as it was, or with a capability the capsule adds
AppliedManifests(manifest) ==
  {manifest,
   [manifest EXCEPT !.federation.allowed_operations = @ \cup {"RUN_REMOTE_TOOL"}]}

\* RehashedState with the recomputation left out
RehashedState_Stale(st) == st

\* this.state.last_manifest_hash = sha256Hex(canonicalStringify(this.state.manifest))
RehashedState(st) == [st EXCEPT !.last_manifest_hash = ManifestHash(st.manifest)]

\* applyUpdatePackage(args) up to `await verifySignature` or governance
AupBegin(p, argset) ==
  /\ pc[p] = "idle"
  /\ \E args \in argset :
       LET l0 == Enter("aup", args)
       IN IF state = NoState
          THEN Throws(p, l0, "TypeError")
          ELSE LET m     == state.manifest
                   gate  == AupPrecheck(m, args.pkg)
                   frame == UpdateFrame(args, m, clock)
                   l     == [l0 EXCEPT !.m = m]
               IN CASE gate = "VERIFY" ->
                         Awaits(p, "aup_verify", l,
                                Call("verifySignature",
                                     <<args.pkg, m.updates.trusted_signers>>))
                    [] gate = "GOVERN" ->
                         Awaits(p, "aup_gov", [l EXCEPT !.frame = frame],
                                Call("governance.evaluate", frame))
                    [] OTHER -> Returns(p, l, Refusal(gate))
  /\ UNCHANGED <<state, storage, clock>>

\* applyUpdatePackage called while no other invocation is in flight
AupStart(p) == Exclusive(p) /\ AupBegin(p, AupArgs)

\* verifySignature answered, up to `await governance.evaluate`
AupVerify(p) ==
  /\ pc[p] = "aup_verify"
  /\ \E valid \in BOOLEAN :
       LET l     == [inv[p] EXCEPT !.res = [valid |-> valid]]
           frame == UpdateFrame(l.args, l.m, clock)
       IN IF ~valid
          THEN Returns(p, l, Refusal("INVALID_SIGNATURE"))
          ELSE Awaits(p, "aup_gov", [l EXCEPT !.frame = frame],
                      Call("governance.evaluate", frame))
  /\ UNCHANGED <<state, storage, clock>>

\* governance answered, up to `await dvap.attest` or `await applyBundle`
AupGov(p) ==
  /\ pc[p] = "aup_gov"
  /\ \E gov \in GovResponses :
       LET l == [inv[p] EXCEPT !.gov = gov]
       IN IF GovDenied(gov)
          THEN Returns(p, l, GovDenyResult(gov))
          ELSE IF UpdateDvapRequired(l.m, l.args.risk_tier)
               THEN Awaits(p, "aup_dvap", l, Call("dvap.attest", l.frame))
               ELSE Awaits(p, "aup_apply", l, Call("applyBundle", l.args.pkg))
  /\ UNCHANGED <<state, storage, clock>>

\* attestation answered, up to `await applyBundle`
AupDvap(p) ==
  /\ pc[p] = "aup_dvap"
  /\ \E dv \in DvapResponses :
       LET l == [inv[p] EXCEPT !.dv = dv]
       IN IF ~DvapAttested(dv)
          THEN Returns(p, l, DvapRefusedResult(dv))
          ELSE Awaits(p, "aup_apply", l, Call("applyBundle", l.args.pkg))
  /\ UNCHANGED <<state, storage, clock>>

\* applyBundle resolved, having updated the manifest object in place or not:
\* the hash is recomputed, up to `await storage.set` of persist
AupApply(p) ==
  /\ pc[p] = "aup_apply"
  /\ \E applied \in AppliedManifests(state.manifest) :
       LET st == RehashedState([state EXCEPT !.manifest = applied])
       IN /\ state' = st
          /\ Awaits(p, "aup_set", [inv[p] EXCEPT !.pending = JSONStringify(st)],
                    Call("storage.set", JSONStringify(st)))
  /\ UNCHANGED <<storage, clock>>

\* storage.set of persist resolved: { ok: true }
AupSet(p) ==
  /\ pc[p] = "aup_set"
  /\ storage' = inv[p].pending
  /\ Returns(p, inv[p], [ok |-> TRUE])
  /\ UNCHANGED <<state, clock>>

\* verifySignature, governance, attestation, applyBundle (which then left the
\* manifest as it was) or storage.set rejected: nothing catches
AupThrows(p) ==
  /\ pc[p] \in {"aup_verify", "aup_gov", "aup_dvap", "aup_apply", "aup_set"}
  /\ Throws(p, inv[p], "COLLABORATOR_REJECTED")
  /\ UNCHANGED <<state, storage, clock>>

ApplyUpdatePackage(p) ==
  \/ AupStart(p)
  \/ AupVerify(p)
  \/ AupGov(p)
  \/ AupDvap(p)
  \/ AupApply(p)
  \/ AupSet(p)
  \/ AupThrows(p)

(* ---------------------------- specification ---------------------------- *)

\* the entrypoints called one at a time, each run to completion
Next ==
  \/ Tick
  \/ \E p \in Serial : Boot(p)
  \/ \E p \in Serial : GovernedFederationCall(p)
  \/ \E p \in Serial : RequestAssistance(p)
  \/ \E p \in Serial : ApplyUpdatePackage(p)
  \/ \E p \in Serial : Return(p)

Spec == Init /\ [][Next]_vars

(* ------------------- overlapping invocations --------------------------- *)

\* the default manifest of the overlapping callers: updates enabled, signed
\* and attested for the high tiers
OverlapManifests ==
  {m \in CapabilityManifest :
     /\ m.updates.enabled
     /\ m.updates.require_signature
     /\ m.updates.require_dvap_for_risk_tiers = HighTiers
     /\ m.governance.dvap_required_for_risk_tiers = HighTiers}

\* the updates of the overlapping callers
OverlapAupArgs ==
  {a \in AupArgs : a.risk_tier = "T3_REGULATED" /\ a.pkg.channel = "SKILL_CAPSULE"}

\* nothing is stored when the overlapping callers start
OverlapInit == Init /\ storage = NULL

\* boot and applyUpdatePackage called by two callers that do not wait for each
\* other: the kernel has no lock, so a segment of one invocation runs whenever
\* the collaborator it awaits has answered
OverlapNext ==
  \/ \E p \in Procs : BootBegin(p, OverlapManifests)
  \/ \E p \in Procs : BootGet(p)
  \/ \E p \in Procs : BootGetThrows(p)
  \/ \E p \in Procs : BootSet(p)
  \/ \E p \in Procs : BootSetThrows(p)
  \/ \E p \in Procs \ Serial : AupBegin(p, OverlapAupArgs)
  \/ \E p \in Procs \ Serial : AupVerify(p)
  \/ \E p \in Procs \ Serial : AupGov(p)
  \/ \E p \in Procs \ Serial : AupDvap(p)
  \/ \E p \in Procs \ Serial : AupApply(p)
  \/ \E p \in Procs \ Serial : AupSet(p)
  \/ \E p \in Procs \ Serial : AupThrows(p)
  \/ \E p \in Procs : Return(p)

SpecOverlap == OverlapInit /\ [][OverlapNext]_vars

(* ------------------- calls that follow a boot -------------------------- *)

\* no invocation other than that of slot p is between its call and its end
Quiet(p) == \A q \in Procs \ {p} : pc[q] \in {"idle", "done", "threw"}

\* the default manifests of the boots that are followed by other calls
SequelManifests == {StoredManifest, ForeignManifest} \cup OverlapManifests

\* boot called when the results of all earlier calls have been taken
SequelBoot(p) == Exclusive(p) /\ BootBegin(p, SequelManifests)

\* a governed entrypoint called when no other invocation is in flight
SequelGfc(p) == Quiet(p) /\ GfcBegin(p)

SequelRa(p) == Quiet(p) /\ RaBegin(p)

SequelAup(p) == Quiet(p) /\ AupBegin(p, AupArgs)

\* one caller boots the kernel and keeps the outcome of its last boot; the
\* governed entrypoints are then called one at a time, each after the boot
\* and the calls before it have ended
SequelNext ==
  \/ \E p \in Serial : SequelBoot(p)
  \/ \E p \in Serial : BootGet(p)
  \/ \E p \in Serial : BootGetThrows(p)
  \/ \E p \in Serial : BootSet(p)
  \/ \E p \in Serial : BootSetThrows(p)
  \/ \E p \in Procs \ Serial : SequelGfc(p)
  \/ \E p \in Procs \ Serial : SequelRa(p)
  \/ \E p \in Procs \ Serial : SequelAup(p)
  \/ \E p \in Procs \ Serial :
        \/ GfcGov(p) \/ GfcDvap(p) \/ GfcFed(p)
        \/ GfcAssist(p) \/ GfcAssistThrows(p) \/ GfcThrows(p)
  \/ \E p \in Procs \ Serial :
        \/ RaGov(p) \/ RaDvap(p) \/ RaAssist(p) \/ RaThrows(p)
  \/ \E p \in Procs \ Serial :
        \/ AupVerify(p) \/ AupGov(p) \/ AupDvap(p)
        \/ AupApply(p) \/ AupSet(p) \/ AupThrows(p)
  \/ \E p \in Procs : Return(p)

SpecSequel == Init /\ [][SequelNext]_vars

(* ---------------------------- vocabulary of the claims ----------------- *)

\* the three governed entrypoints
Governed == {"gfc", "ra", "aup"}

\* the calls that are effects of a governed entrypoint
EffectFns ==
  {"federation.request", "assistance.requestAssistance", "applyBundle", "storage.set"}

\* slot p runs a governed entrypoint on a booted kernel
Serving(p) == inv[p].ent \in Governed /\ inv[p].pre.state # NoState

\* slot p has issued a call of fn
Has(p, fn) == Count(p, fn) > 0

\* slot p has issued an effect
HasEffect(p) == \E fn \in EffectFns : Has(p, fn)

\* governance, attestation has answered slot p
GovAnswered(p) == inv[p].gov # Nil

DvapAnswered(p) == inv[p].dv # Nil

\* the manifest the kernel held when slot p was entered
EntryManifest(p) == inv[p].pre.state.manifest

\* kernel state and storage are what they were when slot p was entered
Untouched(p) == state = inv[p].pre.state /\ storage = inv[p].pre.storage

\* the frame slot p handed to dvap.attest
AttestedFrame(p) ==
  calls[p][CHOOSE i \in 1..Len(calls[p]) : calls[p][i].fn = "dvap.attest"].arg

\* the tier set that decides attestation for the entrypoint of slot p
ApplicableTiers(p) ==
  IF inv[p].ent = "aup"
  THEN EntryManifest(p).updates.require_dvap_for_risk_tiers
  ELSE EntryManifest(p).governance.dvap_required_for_risk_tiers

\* last_manifest_hash of a stored text; Nil when nothing is stored
StoredManifestHash(raw) ==
  IF Parsable(raw) THEN JSONParse(raw).last_manifest_hash ELSE Nil

\* slot p has ended without { ok: true }
Failed(p) ==
  \/ pc[p] = "threw"
  \/ pc[p] = "done" /\ ~result[p].ok

(* ---------------------------- C1 --------------------------------------- *)

\* C1 (as claimed): in a governed entrypoint attestation and every effect are
\* issued only after governance.evaluate answered ALLOW; under any other
\* verdict value neither is issued.
C1_OnlyAfterAllow ==
  \A p \in Procs :
    (Serving(p) /\ (Has(p, "dvap.attest") \/ HasEffect(p)))
      => (GovAnswered(p) /\ inv[p].gov.verdict = "ALLOW")

(* ---------------------------- C2 --------------------------------------- *)

\* C2: when governance answers DENY, the entrypoint has returned
\* { ok: false, error: "GOV_DENY:<reason>" } with the gate's reason, attestation
\* was not consulted, no effect was issued and nothing was written.
C2_DenyStopsEverything ==
  \A p \in Procs :
    (Serving(p) /\ GovAnswered(p) /\ inv[p].gov.verdict = "DENY")
      => /\ pc[p] = "done"
         /\ result[p] = [ok |-> FALSE, error |-> <<"GOV_DENY:", inv[p].gov.reason>>]
         /\ ~Has(p, "dvap.attest")
         /\ ~HasEffect(p)
         /\ Untouched(p)

C2_Witness ==
  \E p \in Procs :
    /\ inv[p].ent = "aup"
    /\ GovAnswered(p) /\ inv[p].gov.verdict = "DENY"
    /\ pc[p] = "done"
    /\ Called(p) = <<"verifySignature", "governance.evaluate">>

(* ---------------------------- C3 --------------------------------------- *)

\* C3: when attestation answers anything but ATTESTED, no effect is issued:
\* no federation request, no broker call, no applyBundle, no storage.set; the
\* entrypoint has returned ok = false and nothing was written.
C3_RefusalBlocksEffect ==
  \A p \in Procs :
    (Serving(p) /\ DvapAnswered(p) /\ inv[p].dv.verdict # "ATTESTED")
      => /\ ~HasEffect(p)
         /\ pc[p] = "done"
         /\ result[p].ok = FALSE
         /\ Untouched(p)

C3_Witness ==
  \E p \in Procs :
    /\ inv[p].ent = "gfc"
    /\ DvapAnswered(p) /\ inv[p].dv.verdict = UNDEFINED
    /\ pc[p] = "done"
    /\ Called(p) = <<"governance.evaluate", "dvap.attest">>

(* ---------------------------- C4 --------------------------------------- *)

\* C4 (as claimed): in every governed entrypoint, the DVAP_REFUSED result
\* carries the input_frame_hash of the frame submitted for attestation.
C4_EveryRefusalCarriesHash ==
  \A p \in Procs :
    (Serving(p) /\ DvapAnswered(p) /\ inv[p].dv.verdict # "ATTESTED"
       /\ pc[p] = "done")
      => /\ "input_frame_hash" \in DOMAIN result[p]
         /\ result[p].input_frame_hash = computeInputFrameHash(AttestedFrame(p))

\* C4 (amended): the DVAP_REFUSED result of governedFederationCall carries the
\* input_frame_hash of the frame submitted for attestation; the DVAP_REFUSED
\* results of requestAssistance and applyUpdatePackage carry no
\* input_frame_hash.
C4_OnlyFederationRefusalCarriesHash ==
  \A p \in Procs :
    (Serving(p) /\ DvapAnswered(p) /\ inv[p].dv.verdict # "ATTESTED"
       /\ pc[p] = "done")
      => /\ result[p].error[1] = "DVAP_REFUSED:"
         /\ IF inv[p].ent = "gfc"
            THEN /\ "input_frame_hash" \in DOMAIN result[p]
                 /\ result[p].input_frame_hash = computeInputFrameHash(AttestedFrame(p))
            ELSE "input_frame_hash" \notin DOMAIN result[p]

C4_Witness ==
  \E p \in Procs :
    /\ inv[p].ent = "gfc"
    /\ DvapAnswered(p) /\ inv[p].dv.verdict = "REFUSED"
    /\ pc[p] = "done"
    /\ result[p].error = <<"DVAP_REFUSED:", "NO_QUORUM">>
    /\ result[p].input_frame_hash = computeInputFrameHash(AttestedFrame(p))

(* ---------------------------- C5 --------------------------------------- *)

\* C5: after governance ALLOW, attestation is consulted iff the risk tier is in
\* the applicable tier set (governance.dvap_required_for_risk_tiers for the
\* federation call and assistance, updates.require_dvap_for_risk_tiers for an
\* update); with the tier outside the set it is never consulted and a
\* successful federation result has uva_hash undefined.
C5_AttestationIffTierListed ==
  \A p \in Procs :
    Serving(p) =>
      /\ (GovAnswered(p) /\ inv[p].gov.verdict = "ALLOW")
            => (Has(p, "dvap.attest") <=> inv[p].args.risk_tier \in ApplicableTiers(p))
      /\ inv[p].args.risk_tier \notin ApplicableTiers(p)
            => /\ ~Has(p, "dvap.attest")
               /\ (inv[p].ent = "gfc" /\ pc[p] = "done" /\ result[p].ok)
                     => result[p].uva_hash = UNDEFINED

C5_Witness ==
  \E p \in Procs :
    /\ inv[p].ent = "aup"
    /\ GovAnswered(p) /\ inv[p].gov.verdict = "ALLOW"
    /\ inv[p].args.risk_tier \in EntryManifest(p).updates.require_dvap_for_risk_tiers
    /\ inv[p].args.risk_tier \notin EntryManifest(p).governance.dvap_required_for_risk_tiers
    /\ Has(p, "dvap.attest")

(* ---------------------------- C6 --------------------------------------- *)

\* C6: with federation.enabled = false, governedFederationCall calls no
\* collaborator at all, whatever its input, and returns
\* { ok: false, error: "FEDERATION_DISABLED" }.
C6_DisabledFederationCallsNothing ==
  \A p \in Procs :
    (Serving(p) /\ inv[p].ent = "gfc" /\ ~EntryManifest(p).federation.enabled)
      => /\ calls[p] = <<>>
         /\ pc[p] = "done"
         /\ result[p] = [ok |-> FALSE, error |-> <<"FEDERATION_DISABLED">>]

C6_Witness ==
  \E p \in Procs :
    /\ inv[p].ent = "gfc" /\ pc[p] = "done"
    /\ ~EntryManifest(p).federation.enabled
    /\ inv[p].args.operation \in EntryManifest(p).federation.allowed_operations
    /\ inv[p].args.risk_tier = "T3_REGULATED"
    /\ result[p].error = <<"FEDERATION_DISABLED">>

(* ---------------------------- C7 --------------------------------------- *)

\* C7: governedFederationCall tests federation.enabled before the operation:
\* with an operation outside allowed_operations it calls no collaborator
\* (governance is never consulted) and returns OP_NOT_ALLOWED, or
\* FEDERATION_DISABLED when federation is disabled as well.
C7_PreconditionsInOrder ==
  \A p \in Procs :
    (Serving(p) /\ inv[p].ent = "gfc"
       /\ inv[p].args.operation \notin EntryManifest(p).federation.allowed_operations)
      => /\ calls[p] = <<>>
         /\ pc[p] = "done"
         /\ result[p] =
              [ok |-> FALSE,
               error |-> IF EntryManifest(p).federation.enabled
                         THEN <<"OP_NOT_ALLOWED">>
                         ELSE <<"FEDERATION_DISABLED">>]

C7_Witness ==
  \E p \in Procs :
    /\ inv[p].ent = "gfc" /\ pc[p] = "done"
    /\ EntryManifest(p).federation.enabled
    /\ inv[p].args.operation \notin EntryManifest(p).federation.allowed_operations
    /\ result[p].error = <<"OP_NOT_ALLOWED">>
    /\ calls[p] = <<>>

(* ---------------------------- C8 --------------------------------------- *)

\* C8: applyUpdatePackage tests updates.enabled, then the channel, then the
\* signature: with updates enabled a package on an unlisted channel is refused
\* with UPDATE_CHANNEL_NOT_ALLOWED and the verifier is not called; a package
\* whose verifier answers false is refused with INVALID_SIGNATURE with the
\* verifier as the only call made (no governance, no applyBundle) and kernel
\* state and storage unchanged.
C8_UpdatePrePhaseOrder ==
  \A p \in Procs :
    (Serving(p) /\ inv[p].ent = "aup") =>
      /\ (EntryManifest(p).updates.enabled
            /\ inv[p].args.pkg.channel \notin EntryManifest(p).updates.allowed_channels)
           => /\ calls[p] = <<>>
              /\ pc[p] = "done"
              /\ result[p] = [ok |-> FALSE, error |-> <<"UPDATE_CHANNEL_NOT_ALLOWED">>]
      /\ (EntryManifest(p).updates.enabled
            /\ EntryManifest(p).updates.require_signature
            /\ inv[p].res = [valid |-> FALSE])
           => /\ Called(p) = <<"verifySignature">>
              /\ pc[p] = "done"
              /\ result[p] = [ok |-> FALSE, error |-> <<"INVALID_SIGNATURE">>]
              /\ Untouched(p)
      /\ (EntryManifest(p).updates.require_signature /\ Has(p, "governance.evaluate"))
           => /\ Called(p)[1] = "verifySignature"
              /\ inv[p].res = [valid |-> TRUE]

C8_Witness ==
  \E p \in Procs :
    /\ inv[p].ent = "aup" /\ pc[p] = "done"
    /\ EntryManifest(p).updates.require_signature
    /\ inv[p].res = [valid |-> FALSE]
    /\ result[p].error = <<"INVALID_SIGNATURE">>

(* ---------------------------- C9 --------------------------------------- *)

\* C9 (as claimed): whenever applyUpdatePackage ends without success (a
\* refusal, GOV_DENY, DVAP_REFUSED, applyBundle throwing, the storage write
\* failing), last_manifest_hash is what it was before the call, in the
\* kernel's in-memory state and in the stored state.
C9_FailedUpdateKeepsHash ==
  \A p \in Procs :
    (Serving(p) /\ inv[p].ent = "aup" /\ Failed(p))
      => /\ state.last_manifest_hash = inv[p].pre.state.last_manifest_hash
         /\ StoredManifestHash(storage) = StoredManifestHash(inv[p].pre.storage)

(* ---------------------------- C10 -------------------------------------- *)

\* C10: when applyUpdatePackage returns { ok: true }, last_manifest_hash is the
\* hash of the canonical serialization of the kernel's current manifest, and
\* the state carrying it is what storage holds: the storage.set of that state
\* was the last call and has completed.
C10_SuccessfulUpdateIsHashedAndStored ==
  \A p \in Procs :
    (inv[p].ent = "aup" /\ pc[p] = "done" /\ result[p].ok)
      => /\ state.last_manifest_hash = sha256Hex(canonicalStringify(state.manifest))
         /\ storage # NULL
         /\ JSONParse(storage) = state
         /\ calls[p][Len(calls[p])] = Call("storage.set", storage)

C10_Witness ==
  \E p \in Procs :
    /\ inv[p].ent = "aup" /\ pc[p] = "done" /\ result[p].ok
    /\ state.manifest # inv[p].pre.state.manifest
    /\ state.last_manifest_hash # inv[p].pre.state.last_manifest_hash

\* ---------------------------------------------------------------------------
\* Boot and the stored counter
\* ---------------------------------------------------------------------------

\* the stored text carries a monotonic_counter
HasCounter(raw) ==
  Parsable(raw) /\ "monotonic_counter" \in DOMAIN JSONParse(raw)

\* the monotonic_counter a stored text carries
CounterIn(raw) == JSONParse(raw).monotonic_counter

\* the counter a boot reads from a stored text: 0 when it carries none
StoredCounterOf(raw) == IF HasCounter(raw) THEN CounterIn(raw) ELSE 0

\* this step is the completion of boot's storage.set
BootPersists(p) == pc[p] = "boot_set" /\ pc'[p] = "done"

\* C11: every boot that completes leaves a stored counter of 1 when nothing
\* was stored before it and of exactly the previously stored counter plus one
\* otherwise, and no step of any entrypoint ever lowers a stored counter.
C11_BootCounterAdvances ==
  [][ /\ \A p \in Procs :
           BootPersists(p) =>
             /\ HasCounter(storage')
             /\ Falsy(storage) => CounterIn(storage') = 1
             /\ HasCounter(storage) => CounterIn(storage') = CounterIn(storage) + 1
      /\ HasCounter(storage) =>
           /\ HasCounter(storage')
           /\ CounterIn(storage') >= CounterIn(storage) ]_vars

\* a second boot has completed on the state the first one stored
C11_Witness ==
  \E p \in Procs :
    /\ inv[p].ent = "boot"
    /\ pc[p] = "done"
    /\ HasCounter(inv[p].pre.storage)
    /\ CounterIn(inv[p].pre.storage) = 1
    /\ CounterIn(storage) = 2

\* slot p runs boot and storage.get has answered it
BootAnswered(p) == inv[p].ent = "boot" /\ inv[p].raw # Nil

\* C12 (as claimed): a boot that finds a stored value from which the prior
\* counter cannot be read (no monotonic_counter in it, an empty text, a text
\* that is not JSON) fails, issues no storage.set and leaves the storage as it
\* found it.
C12_UnreadableCounterFailsBoot ==
  \A p \in Procs :
    (/\ BootAnswered(p)
     /\ inv[p].raw # NULL
     /\ ~HasCounter(inv[p].raw))
      => /\ pc[p] = "threw"
         /\ ~Has(p, "storage.set")
         /\ storage = inv[p].raw

\* the agent id in the manifest of a stored text
StoredAgentId(raw) == JSONParse(raw).manifest.agent_id

\* slot p runs boot on a stored state written for another agent
BootOnForeignState(p) ==
  /\ BootAnswered(p)
  /\ Parsable(inv[p].raw)
  /\ StoredAgentId(inv[p].raw) # AgentId

\* C13: a boot that finds a stored state whose manifest.agent_id is not the
\* kernel's throws the agent-id-mismatch error, issues no storage.set, and
\* leaves the stored value and the kernel's in-memory state as they were.
C13_MismatchModifiesNothing ==
  \A p \in Procs :
    BootOnForeignState(p)
      => /\ pc[p] = "threw"
         /\ result[p].threw = AgentIdMismatchError(StoredAgentId(inv[p].raw))
         /\ ~Has(p, "storage.set")
         /\ Untouched(p)

\* a kernel that holds a state in memory has refused to boot on a foreign one
C13_Witness ==
  \E p \in Procs :
    /\ BootOnForeignState(p)
    /\ pc[p] = "threw"
    /\ inv[p].pre.state # NoState
    /\ state.monotonic_counter = 1

\* ---------------------------------------------------------------------------
\* Failures of collaborators
\* ---------------------------------------------------------------------------

\* C14 (as claimed): no invocation of a governed entrypoint on a booted kernel
\* ends with an exception; whatever its collaborators do, it ends with a
\* structured result.
C14_NoExceptionEscapes ==
  \A p \in Procs :
    Serving(p) => /\ pc[p] # "threw"
                  /\ pc[p] = "done" => "ok" \in DOMAIN result[p]

\* the federation client answered slot p with ok = false
FederationFailed(p) ==
  /\ inv[p].ent = "gfc"
  /\ inv[p].res # Nil
  /\ ~inv[p].res.ok

\* the tag the federation failure is reported under
FederationErrorTag(p) == Coalesce(inv[p].res.error, "FEDERATION_ERROR")

\* C15 (as claimed): when the federation client answered ok = false the call
\* returns ok = false with input_frame_hash and an error tag that begins with
\* the federation's error, or with FEDERATION_ERROR when it reported none; a
\* successful assistance only appends " | assist:<route_used>" to that tag.
C15_FederationErrorNeverMasked ==
  \A p \in Procs :
    (FederationFailed(p) /\ pc[p] = "done")
      => /\ ~result[p].ok
         /\ "input_frame_hash" \in DOMAIN result[p]
         /\ result[p].error[1] = FederationErrorTag(p)
         /\ IF inv[p].assist.ok
            THEN result[p].error =
                   <<FederationErrorTag(p), " | assist:", inv[p].assist.route_used>>
            ELSE result[p].error = <<FederationErrorTag(p)>>

\* ---------------------------------------------------------------------------
\* Assistance on failure
\* ---------------------------------------------------------------------------

BrokerFn == "assistance.requestAssistance"

\* C16: an invocation of governedFederationCall calls the assistance broker at
\* most once; when it does, that call is its last one, it directly follows the
\* federation request, the federation had answered ok = false and the manifest
\* enables assistance (whatever its max_attempts); and when the broker rejects,
\* the invocation still returns the federation failure, exactly as for a broker
\* answer { ok: false }.
C16_AssistanceIsBounded ==
  \A p \in Procs :
    inv[p].ent = "gfc"
      => /\ Count(p, BrokerFn) <= 1
         /\ Has(p, BrokerFn)
              => /\ FederationFailed(p)
                 /\ Len(calls[p]) >= 2
                 /\ Called(p)[Len(calls[p])] = BrokerFn
                 /\ Called(p)[Len(calls[p]) - 1] = "federation.request"
                 /\ EntryManifest(p).assistance.enabled
         /\ inv[p].broker = Rejected
              => /\ pc[p] = "done"
                 /\ result[p] = GfcFailureResult(inv[p], inv[p].res, [ok |-> FALSE])
                 /\ result[p].error = <<FederationErrorTag(p)>>

\* the broker rejected the one assistance call of a failed federation call
C16_Witness ==
  \E p \in Procs :
    /\ inv[p].ent = "gfc"
    /\ Count(p, BrokerFn) = 1
    /\ EntryManifest(p).assistance.max_attempts > 1
    /\ inv[p].broker = Rejected
    /\ pc[p] = "done"

\* ===========================================================================
\* canonicalStringify in detail: JS values, key order, JSON text
\* ===========================================================================
\* The kernel's actions above use canonicalStringify at the level of TLA+
\* records, where a record has no key order. The definitions below compute it
\* as the code does, on objects that remember the order in which their
\* properties were created.

\* the largest number of properties of an input object
MaxKeys == 3

\* a JS object: its properties <<key, value>> in creation order
Obj(props) == [t |-> "obj", props |-> props]

\* a JS array
Arr(items) == [t |-> "arr", items |-> items]

\* JS scalars
Num(n) == [t |-> "num", v |-> n]

StrV(s) == [t |-> "str", v |-> s]

BoolV(b) == [t |-> "bool", v |-> b]

\* property keys as sequences of UTF-16 code units: "9", "10", "a", "B"
Key_9 == <<57>>

Key_10 == <<49, 48>>

Key_a == <<97>>

Key_B == <<66>>

\* a < b in the order of Array.prototype.sort() without a comparator:
\* code unit by code unit, a proper prefix first
RECURSIVE KeyLess(_, _)
KeyLess(a, b) ==
  IF a = <<>> THEN b # <<>>
  ELSE IF b = <<>> THEN FALSE
  ELSE IF a[1] # b[1] THEN a[1] < b[1]
  ELSE KeyLess(Tail(a), Tail(b))

\* the key is an integer index: a canonical decimal numeral
IsIndexKey(k) ==
  /\ k # <<>>
  /\ \A i \in 1..Len(k) : k[i] \in 48..57
  /\ Len(k) > 1 => k[1] # 48

\* the integer an index key denotes
RECURSIVE IndexOfKey(_)
IndexOfKey(k) ==
  IF k = <<>> THEN 0
  ELSE IndexOfKey(SubSeq(k, 1, Len(k) - 1)) * 10 + (k[Len(k)] - 48)

\* a sequence of distinct keys in the order of Array.prototype.sort(): the key
\* at position i has i - 1 keys below it
SortKeySeq(s) ==
  LET ks == {s[i] : i \in 1..Len(s)}
  IN [i \in 1..Len(s) |->
        CHOOSE k \in ks : Cardinality({j \in ks : KeyLess(j, k)}) = i - 1]

\* a sequence of distinct index keys in ascending numeric order
SortIndexKeys(s) ==
  LET ks == {s[i] : i \in 1..Len(s)}
  IN [i \in 1..Len(s) |->
        CHOOSE k \in ks :
          Cardinality({j \in ks : IndexOfKey(j) < IndexOfKey(k)}) = i - 1]

\* the keys of the properties of o, in creation order
CreatedKeys(o) == [i \in 1..Len(o.props) |-> o.props[i][1]]

\* Object.keys(o), also the order in which JSON.stringify visits o: integer
\* indices ascending, then the other keys in creation order
ObjectKeys(o) ==
  SortIndexKeys(SelectSeq(CreatedKeys(o), IsIndexKey))
    \o SelectSeq(CreatedKeys(o), LAMBDA k : ~IsIndexKey(k))

\* o[k]
GetProp(o, k) ==
  o.props[CHOOSE i \in 1..Len(o.props) : o.props[i][1] = k][2]

\* Object.keys(v) taken as they come
SortedObjectKeys_Unsorted(v) == ObjectKeys(v)

\* Object.keys(v).sort()
SortedObjectKeys(v) == SortKeySeq(ObjectKeys(v))

\* sortKeys(v): arrays are mapped, objects are rebuilt by creating their
\* properties in sorted key order, anything else is returned as it is
RECURSIVE sortKeys(_)
sortKeys(v) ==
  IF v.t = "arr"
  THEN Arr([i \in 1..Len(v.items) |-> sortKeys(v.items[i])])
  ELSE IF v.t = "obj"
  THEN LET ks == SortedObjectKeys(v)
       IN Obj([i \in 1..Len(ks) |-> <<ks[i], sortKeys(GetProp(v, ks[i]))>>])
  ELSE v

\* the texts of the parts, separated by commas
RECURSIVE JoinComma(_)
JoinComma(parts) ==
  IF parts = <<>> THEN <<>>
  ELSE IF Len(parts) = 1 THEN parts[1]
  ELSE parts[1] \o <<[punct |-> ","]>> \o JoinComma(Tail(parts))

\* JSON.stringify(v) as a sequence of tokens
RECURSIVE JSONText(_)
JSONText(v) ==
  IF v.t = "arr"
  THEN <<[punct |-> "["]>>
         \o JoinComma([i \in 1..Len(v.items) |-> JSONText(v.items[i])])
         \o <<[punct |-> "]"]>>
  ELSE IF v.t = "obj"
  THEN LET ks == ObjectKeys(v)
       IN <<[punct |-> "{"]>>
            \o JoinComma([i \in 1..Len(ks) |->
                           <<[key |-> ks[i]], [punct |-> ":"]>>
                             \o JSONText(GetProp(v, ks[i]))])
            \o <<[punct |-> "}"]>>
  ELSE <<[scalar |-> v]>>

\* canonicalStringify(obj) as a sequence of tokens
canonicalStringifyText(obj) == JSONText(sortKeys(obj))

\* computeInputFrameHash(frame) of a frame given as a JS object
computeInputFrameHashText(frame) == sha256Hex(canonicalStringifyText(frame))

\* ----------------- the inputs and the calls of the pure functions ----------

CanonKeys == {Key_9, Key_10, Key_a, Key_B}

\* an extensions-like object, with its two properties created in either order
NestedObjects ==
  {Obj(<<<<Key_B, BoolV(TRUE)>>, <<Key_a, Num(2)>>>>),
   Obj(<<<<Key_a, Num(2)>>, <<Key_B, BoolV(TRUE)>>>>)}

\* two arrays of the same items in different orders
Arrays == {Arr(<<Num(2), Num(1)>>), Arr(<<Num(1), Num(2)>>)}

\* the values a property of an input object may have, by its key
ValuesOf(k) ==
  IF k = Key_a THEN NestedObjects
  ELSE IF k = Key_B THEN Arrays
  ELSE IF k = Key_9 THEN {Num(1)}
  ELSE {StrV("x")}

\* the creation orders of at most MaxKeys distinct keys
KeyOrders ==
  UNION {{s \in [1..n -> CanonKeys] : \A i, j \in 1..n : i # j => s[i] # s[j]} :
           n \in 0..MaxKeys}

\* the assignments of a value to every key
ValueChoices ==
  {f \in [CanonKeys -> UNION {ValuesOf(k) : k \in CanonKeys}] :
     \A k \in CanonKeys : f[k] \in ValuesOf(k)}

\* the objects handed to canonicalStringify and computeInputFrameHash
CanonInputs ==
  {Obj([i \in 1..Len(s) |-> <<s[i], f[s[i]]>>]) : s \in KeyOrders, f \in ValueChoices}

CanonInit ==
  /\ state = NoState
  /\ storage = NULL
  /\ clock = 0
  /\ pc = [p \in Procs |-> "idle"]
  /\ \E obj \in CanonInputs :
       inv = [p \in Procs |-> [NoLocals EXCEPT !.args = obj]]
  /\ calls = [p \in Procs |-> <<>>]
  /\ result = [p \in Procs |-> Nil]

\* canonicalStringify(obj) is called and returns
CanonicalStringifyCall(p) ==
  /\ pc[p] = "idle"
  /\ Returns(p, [inv[p] EXCEPT !.ent = "canonicalStringify"],
             canonicalStringifyText(inv[p].args))
  /\ UNCHANGED <<state, storage, clock>>

\* computeInputFrameHash(frame) is called and returns
ComputeInputFrameHashCall(p) ==
  /\ pc[p] = "idle"
  /\ Returns(p, [inv[p] EXCEPT !.ent = "computeInputFrameHash"],
             computeInputFrameHashText(inv[p].args))
  /\ UNCHANGED <<state, storage, clock>>

CanonNext ==
  \/ \E p \in Serial : CanonicalStringifyCall(p)
  \/ \E p \in Serial : ComputeInputFrameHashCall(p)

SpecCanon == CanonInit /\ [][CanonNext]_vars

\* ----------------- C17 -------------------------------------------------------

\* a and b are the same value: objects with the same keys and the same value
\* under every key whatever the creation order, arrays with the same items in
\* the same order, equal scalars
RECURSIVE SameValue(_, _)
SameValue(a, b) ==
  IF a.t # b.t THEN FALSE
  ELSE IF a.t = "obj"
  THEN /\ {a.props[i][1] : i \in 1..Len(a.props)}
            = {b.props[i][1] : i \in 1..Len(b.props)}
       /\ \A i \in 1..Len(a.props) :
            SameValue(a.props[i][2], GetProp(b, a.props[i][1]))
  ELSE IF a.t = "arr"
  THEN /\ Len(a.items) = Len(b.items)
       /\ \A i \in 1..Len(a.items) : SameValue(a.items[i], b.items[i])
  ELSE a = b

\* slot p has returned from fn
Returned(p, fn) == pc[p] = "done" /\ inv[p].ent = fn

\* C17: the text canonicalStringify returns for an object, and the hash
\* computeInputFrameHash returns for it, are those of every object that has
\* the same properties created in another order, at the top level and in a
\* nested object, and of no object that differs in a value or in the order of
\* the items of an array.
C17_KeyOrderDoesNotMatter ==
  \A p \in Procs :
    \A other \in CanonInputs :
      /\ Returned(p, "canonicalStringify")
           => (SameValue(inv[p].args, other)
                 <=> canonicalStringifyText(other) = result[p])
      /\ Returned(p, "computeInputFrameHash")
           => (SameValue(inv[p].args, other)
                 <=> computeInputFrameHashText(other) = result[p])

\* the hash has been returned for an object whose properties, at the top level
\* and in the nested object, were not created in sorted order
C17_Witness ==
  \E p \in Procs :
    /\ Returned(p, "computeInputFrameHash")
    /\ CreatedKeys(inv[p].args) = <<Key_a, Key_B, Key_10>>
    /\ CreatedKeys(GetProp(inv[p].args, Key_a)) = <<Key_a, Key_B>>
    /\ GetProp(inv[p].args, Key_B) = Arr(<<Num(2), Num(1)>>)

\* ---------------------------------------------------------------------------
\* Overlapping invocations
\* ---------------------------------------------------------------------------

\* slot p holds a boot whose storage.set has completed
BootPersisted(p) == inv[p].ent = "boot" /\ pc[p] = "done"

\* the boots of p and q were both called before either had persisted
BootsOverlapped(p, q) ==
  /\ p # q
  /\ BootPersisted(p)
  /\ BootPersisted(q)
  /\ inv[p].pre.storage = inv[q].pre.storage

\* C18 (as claimed): two boots that overlap are linearized: they never persist
\* the same monotonic_counter, and the counter they leave in storage is the one
\* a serial execution of the two leaves, two above the one they both found
\* (2 when nothing was stored).
C18_OverlappingBootsAreSerialized ==
  \A p, q \in Procs :
    BootsOverlapped(p, q)
      => /\ CounterIn(inv[p].pending) # CounterIn(inv[q].pending)
         /\ CounterIn(storage) = StoredCounterOf(inv[p].pre.storage) + 2

\* ---------------------------------------------------------------------------
\* Order of the collaborator calls
\* ---------------------------------------------------------------------------

\* the call orders of a complete invocation, by entrypoint
CallOrders(ent) ==
  IF ent = "gfc"
  THEN {<<"governance.evaluate", "federation.request">>,
        <<"governance.evaluate", "dvap.attest", "federation.request">>,
        <<"governance.evaluate", "federation.request",
          "assistance.requestAssistance">>,
        <<"governance.evaluate", "dvap.attest", "federation.request",
          "assistance.requestAssistance">>}
  ELSE IF ent = "ra"
  THEN {<<"governance.evaluate", "assistance.requestAssistance">>,
        <<"governance.evaluate", "dvap.attest", "assistance.requestAssistance">>}
  ELSE {<<"governance.evaluate", "applyBundle", "storage.set">>,
        <<"governance.evaluate", "dvap.attest", "applyBundle", "storage.set">>,
        <<"verifySignature", "governance.evaluate", "applyBundle", "storage.set">>,
        <<"verifySignature", "governance.evaluate", "dvap.attest", "applyBundle",
          "storage.set">>}

\* the calls of slot p so far are the beginning of order
BeginsOrder(p, order) ==
  /\ Len(calls[p]) <= Len(order)
  /\ \A i \in 1..Len(calls[p]) : calls[p][i].fn = order[i]

\* the position of the governance call of slot p
GovCallAt(p) ==
  CHOOSE i \in 1..Len(calls[p]) : calls[p][i].fn = "governance.evaluate"

\* C19: the collaborator calls of an invocation of a governed entrypoint are
\* always the beginning of one fixed order: [verifySignature,]
\* governance.evaluate, [dvap.attest,] the effect, then storage.set (updates)
\* or one assistance attempt (federation call); no call occurs twice, and
\* governance.evaluate receives the frame the invocation has built.
C19_CallsInFixedOrder ==
  \A p \in Procs :
    inv[p].ent \in Governed
      => /\ \E order \in CallOrders(inv[p].ent) : BeginsOrder(p, order)
         /\ \A fn \in {calls[p][i].fn : i \in 1..Len(calls[p])} : Count(p, fn) = 1
         /\ Has(p, "governance.evaluate")
              => /\ inv[p].frame # Nil
                 /\ calls[p][GovCallAt(p)].arg = inv[p].frame

\* an update has gone through all five of its calls
C19_Witness ==
  \E p \in Procs :
    /\ inv[p].ent = "aup"
    /\ pc[p] = "done"
    /\ Called(p) = <<"verifySignature", "governance.evaluate", "dvap.attest",
                     "applyBundle", "storage.set">>

\* ---------------------------------------------------------------------------
\* Boot on existing state
\* ---------------------------------------------------------------------------

\* slot p holds a boot that found a stored state of this agent and returned
RebootReturned(p) ==
  /\ BootPersisted(p)
  /\ Parsable(inv[p].raw)
  /\ StoredAgentId(inv[p].raw) = AgentId

\* the fields a reboot may change
RebootFields == {"last_boot_utc", "monotonic_counter", "last_manifest_hash"}

\* C20: when a boot that found a stored state returns, the state it returns
\* and serves differs from the stored one in last_boot_utc, monotonic_counter
\* and last_manifest_hash only; its manifest is the stored manifest, whatever
\* default manifest was passed; and the storage already holds that state.
C20_RebootKeepsStoredManifest ==
  \A p \in Procs :
    RebootReturned(p)
      => LET parsed == JSONParse(inv[p].raw)
         IN /\ result[p] = state
            /\ state.manifest = parsed.manifest
            /\ \A f \in DOMAIN parsed \ RebootFields : state[f] = parsed[f]
            /\ DOMAIN state = DOMAIN parsed \cup RebootFields
            /\ state.last_manifest_hash = ManifestHash(parsed.manifest)
            /\ storage = JSONStringify(state)

\* a reboot has returned that was handed a default manifest other than the
\* stored one
C20_Witness ==
  \E p \in Procs :
    /\ RebootReturned(p)
    /\ inv[p].args.defaultManifest # JSONParse(inv[p].raw).manifest
    /\ state.monotonic_counter = 2

\* ---------------------------------------------------------------------------
\* After a failed boot
\* ---------------------------------------------------------------------------

\* the last boot of the kernel, held by slot p, ended with the mismatch error
BootMismatched(p) == BootOnForeignState(p) /\ pc[p] = "threw"

\* C21 (as claimed): once a boot has failed with the agent-id mismatch, no
\* invocation of a governed entrypoint that is called afterwards makes any
\* collaborator call, whether or not the kernel had booted before.
C21_MismatchIsFatal ==
  \A p, q \in Procs :
    (BootMismatched(p) /\ inv[q].ent \in Governed) => calls[q] = <<>>

\* ---------------------------------------------------------------------------
\* Key order of the canonical text
\* ---------------------------------------------------------------------------

\* the text of v with the keys of every object in lexicographic order of
\* their code units
RECURSIVE LexicographicText(_)
LexicographicText(v) ==
  IF v.t = "arr"
  THEN <<[punct |-> "["]>>
         \o JoinComma([i \in 1..Len(v.items) |-> LexicographicText(v.items[i])])
         \o <<[punct |-> "]"]>>
  ELSE IF v.t = "obj"
  THEN LET ks == SortKeySeq(CreatedKeys(v))
       IN <<[punct |-> "{"]>>
            \o JoinComma([i \in 1..Len(ks) |->
                           <<[key |-> ks[i]], [punct |-> ":"]>>
                             \o LexicographicText(GetProp(v, ks[i]))])
            \o <<[punct |-> "}"]>>
  ELSE <<[scalar |-> v]>>

\* C22 (as claimed): the text canonicalStringify returns has, at every object
\* and every depth, the keys in lexicographic order of the key strings,
\* integer-like keys included ("10" before "9").
C22_KeysInLexicographicOrder ==
  \A p \in Procs :
    Returned(p, "canonicalStringify")
      => result[p] = LexicographicText(inv[p].args)

\* ---------------------------------------------------------------------------
\* Self-consistency of the written values
\* ---------------------------------------------------------------------------

\* the values slot p has handed to storage.set
WrittenBy(p) ==
  {JSONParse(calls[p][i].arg) :
     i \in {j \in 1..Len(calls[p]) : calls[p][j].fn = "storage.set"}}

\* the last_manifest_hash of a persisted state is the hash of its manifest
SelfConsistent(w) == w.last_manifest_hash = ManifestHash(w.manifest)

\* C23: whatever the interleaving of boots and updates, every value handed to
\* storage.set, and hence every value the kernel has stored, carries as
\* last_manifest_hash the hash of the canonical text of the manifest in that
\* same value.
C23_WrittenHashMatchesManifest ==
  /\ \A p \in Procs : \A w \in WrittenBy(p) : SelfConsistent(w)
  /\ Parsable(storage) => SelfConsistent(JSONParse(storage))

\* an update writes a manifest that applyBundle has changed while a boot that
\* read the earlier stored state is still waiting for its own storage.set
C23_Witness ==
  \E p, q \in Procs :
    /\ inv[p].ent = "boot"
    /\ pc[p] = "boot_set"
    /\ inv[q].ent = "aup"
    /\ pc[q] = "aup_set"
    /\ JSONParse(inv[q].pending).manifest # JSONParse(inv[p].pending).manifest

\* ---------------------------------------------------------------------------
\* The agent id of the persisted manifest
\* ---------------------------------------------------------------------------

\* getManifest()
getManifest == state.manifest

\* C24 (as claimed): the manifest the kernel serves, and the manifest of every
\* value it hands to storage.set, carry the kernel's own agent_id, the state of
\* a first boot from the caller's default manifest included; so no boot fails
\* with the mismatch on a stored value that a boot of this kernel has written.
C24_PersistedAgentIdIsOwn ==
  /\ state # NoState => getManifest.agent_id = AgentId
  /\ \A p \in Procs :
       /\ \A w \in WrittenBy(p) : w.manifest.agent_id = AgentId
       /\ (BootMismatched(p) /\ inv[p].pre.state # NoState)
            => inv[p].raw # JSONStringify(inv[p].pre.state)

====
